---- MODULE Spec2Model ----
(***************************************************************************)
(* javachangename: a directory walk that rewrites package/import          *)
(* declarations and build-file identifiers and relocates .java files.     *)
(* Strings are TLA+ strings handled with Len, SubSeq and \o; a file tree  *)
(* is a function from paths (relative to the working directory) to nodes. *)
(***************************************************************************)
EXTENDS Integers, Sequences, FiniteSets, TLC

\* ------------------------------------------------------------------ bounds

\* Longest path the operating system accepts (PATH_MAX, scaled down).
PathMax == 18

\* ----------------------------------------------------------------- strings

\* Characters of the model in byte order (sort.Strings compares bytes).
Alphabet == " ./:;FGXabcdefghijklmnopqrstuvwxyz"

Char(s, i) == SubSeq(s, i, i)

Code(c) == CHOOSE i \in 1..Len(Alphabet) : Char(Alphabet, i) = c

\* strings.HasPrefix(SubSeq(s, i, Len(s)), t)
OccursAt(s, t, i) == i + Len(t) - 1 <= Len(s) /\ SubSeq(s, i, i + Len(t) - 1) = t

\* strings.Index, 1-based; 0 when t does not occur in s.
Index(s, t) ==
  IF \E i \in 1..(Len(s) + 1) : OccursAt(s, t, i)
  THEN CHOOSE i \in 1..(Len(s) + 1) :
         OccursAt(s, t, i) /\ \A j \in 1..(i - 1) : ~OccursAt(s, t, j)
  ELSE 0

\* strings.Contains
Contains(s, t) == Index(s, t) # 0

\* strings.HasSuffix
HasSuffix(s, t) == Len(t) <= Len(s) /\ SubSeq(s, Len(s) - Len(t) + 1, Len(s)) = t

\* strings.HasPrefix
HasPrefix(s, t) == OccursAt(s, t, 1)

\* strings.Replace(s, old, new, 1) for a non-empty old.
ReplaceFirst(s, old, new) ==
  LET i == Index(s, old)
  IN  IF i = 0 THEN s
      ELSE SubSeq(s, 1, i - 1) \o new \o SubSeq(s, i + Len(old), Len(s))

\* strings.ReplaceAll: non-overlapping occurrences, left to right; an empty
\* old matches before every character and at the end.
RECURSIVE ReplaceAll(_, _, _)
ReplaceAll(s, old, new) ==
  IF old = ""
  THEN IF s = "" THEN new
       ELSE new \o Char(s, 1) \o ReplaceAll(SubSeq(s, 2, Len(s)), old, new)
  ELSE LET i == Index(s, old)
       IN  IF i = 0 THEN s
           ELSE SubSeq(s, 1, i - 1) \o new
                  \o ReplaceAll(SubSeq(s, i + Len(old), Len(s)), old, new)

\* Index of the last occurrence of the one-character string c in s, or 0.
LastIndex(s, c) ==
  IF \E i \in 1..Len(s) : Char(s, i) = c
  THEN CHOOSE i \in 1..Len(s) :
         Char(s, i) = c /\ \A j \in (i + 1)..Len(s) : Char(s, j) # c
  ELSE 0

\* info.Name(): the last element of a path.
Base(p) == SubSeq(p, LastIndex(p, "/") + 1, Len(p))

\* filepath.Dir: the path without its last element; "." when it has one element.
Dir(p) == IF LastIndex(p, "/") = 0 THEN "." ELSE SubSeq(p, 1, LastIndex(p, "/") - 1)

\* filepath.Join(dir, name); the walk's root is the entry of the empty directory.
Join(d, name) == IF d = "" THEN name ELSE d \o "/" \o name

\* The old or new name as a directory path: dots become separators.
PackagePath(name) == ReplaceAll(name, ".", "/")

\* strings.Split(name, ".")[len-1] and strings.Join(parts[:len-1], ".")
Artifact(name) == SubSeq(name, LastIndex(name, ".") + 1, Len(name))

Group(name) == SubSeq(name, 1, LastIndex(name, ".") - 1)

\* Byte-wise lexical order of two names.
Less(a, b) ==
  \E i \in 1..(Len(a) + 1) :
    /\ i <= Len(b)
    /\ SubSeq(a, 1, i - 1) = SubSeq(b, 1, i - 1)
    /\ (i = Len(a) + 1 \/ Code(Char(a, i)) < Code(Char(b, i)))

\* The names of a set in increasing order, as readDirNames returns them.
RECURSIVE Sorted(_)
Sorted(S) ==
  IF S = {} THEN <<>>
  ELSE LET m == CHOOSE x \in S : \A y \in S \ {x} : Less(x, y)
       IN  <<m>> \o Sorted(S \ {m})

\* ------------------------------------------------------------- file system

DirNode == [kind |-> "dir", id |-> 0, content |-> ""]

FileNode(i, c) == [kind |-> "file", id |-> i, content |-> c]

\* A path longer than the system's limit fails every call (ENAMETOOLONG).
TooLong(p) == Len(p) > PathMax

\* The proper ancestors of a path.
Ancestors(p) == {SubSeq(p, 1, i - 1) : i \in {j \in 1..Len(p) : Char(p, j) = "/"}}

IsDir(f, p) == p = "." \/ (p \in DOMAIN f /\ f[p].kind = "dir")

\* os.Lstat succeeds.
LstatOk(f, p) == p \in DOMAIN f /\ ~TooLong(p)

\* os.IsNotExist(err) of os.Stat(p): an element is missing and none before it
\* is a regular file (that is ENOTDIR, which is not IsNotExist).
StatNotExist(f, p) ==
  /\ ~TooLong(p)
  /\ ~IsDir(f, p)
  /\ p \notin DOMAIN f
  /\ \A a \in Ancestors(p) : a \notin DOMAIN f \/ f[a].kind = "dir"

\* os.MkdirAll(d) after StatNotExist(f, d): d and its missing ancestors.
MkdirAll(f, d) ==
  LET made == (Ancestors(d) \cup {d}) \ DOMAIN f
  IN  [p \in DOMAIN f \cup made |-> IF p \in made THEN DirNode ELSE f[p]]

\* os.Rename(p, q) of a regular file succeeds: q's directory exists and q is
\* not a directory. An existing regular file at q is replaced.
RenameOk(f, p, q) ==
  /\ ~TooLong(q)
  /\ IsDir(f, Dir(q))
  /\ ~IsDir(f, q)

Rename(f, p, q) ==
  [r \in (DOMAIN f \ {p}) \cup {q} |-> IF r = q THEN f[p] ELSE f[r]]

\* readDirNames: the sorted names of the entries of directory d.
ReadDirNames(f, d) ==
  Sorted({Base(p) : p \in {q \in DOMAIN f : q # d /\ Dir(q) = d}})

\* What a failed os.WriteFile can leave: the old content (open failed) or any
\* prefix of the new content (truncated, then written in part).
PartialWrites(original, modified) ==
  {original} \cup {SubSeq(modified, 1, n) : n \in 0..Len(modified)}

\* ------------------------------------------------------------- processors

JavaContent(c, oldName, newName) ==
  ReplaceAll(ReplaceAll(c, "package " \o oldName, "package " \o newName),
             "import " \o oldName, "import " \o newName)

\* processJavaFile: the set of its possible results, [fs, err, ops], given
\* that any of its calls may fail.
processJavaFile(f, filePath, oldName, newName) ==
  LET originalContent == f[filePath].content
      modifiedContent == JavaContent(originalContent, oldName, newName)
      oldPackagePath == PackagePath(oldName)
      newPackagePath == PackagePath(newName)
      writes == modifiedContent # originalContent
      written == IF writes
                 THEN [f EXCEPT ![filePath].content = modifiedContent]
                 ELSE f
      opsW == IF writes THEN {"read", "write"} ELSE {"read"}
      newFilePath == ReplaceFirst(filePath, oldPackagePath, newPackagePath)
      moves == Contains(filePath, oldPackagePath) /\ newFilePath # filePath
      newDir == Dir(newFilePath)
      mkdirs == StatNotExist(written, newDir)
      made == IF mkdirs THEN MkdirAll(written, newDir) ELSE written
      opsM == opsW \cup (IF mkdirs THEN {"stat", "mkdir"} ELSE {"stat"})
  IN  {[fs |-> f, err |-> TRUE, ops |-> {"read"}]}
      \cup
      (IF writes
       THEN {[fs |-> [f EXCEPT ![filePath].content = c], err |-> TRUE, ops |-> opsW] :
               c \in PartialWrites(originalContent, modifiedContent)}
       ELSE {})
      \cup
      (IF ~moves
       THEN {[fs |-> written, err |-> FALSE, ops |-> opsW]}
       ELSE (IF mkdirs
             THEN {[fs |-> MkdirAll(written, a), err |-> TRUE, ops |-> opsM] :
                     a \in Ancestors(newDir)}
                  \cup {[fs |-> written, err |-> TRUE, ops |-> opsM]}
             ELSE {})
            \cup {[fs |-> made, err |-> TRUE, ops |-> opsM \cup {"rename"}]}
            \cup (IF RenameOk(made, filePath, newFilePath)
                  THEN {[fs |-> Rename(made, filePath, newFilePath), err |-> FALSE,
                         ops |-> opsM \cup {"rename"}]}
                  ELSE {}))

\* Faulty variant: the prefix replacement without its test that both prefixes
\* are non-empty.
BuildContentUnguarded(c, oldName, newName) ==
  ReplaceAll(ReplaceAll(ReplaceAll(c, oldName, newName),
                        Artifact(oldName), Artifact(newName)),
             Group(oldName), Group(newName))

BuildContent(c, oldName, newName) ==
  LET full == ReplaceAll(c, oldName, newName)
      artifact == ReplaceAll(full, Artifact(oldName), Artifact(newName))
  IN  IF Group(oldName) # "" /\ Group(newName) # ""
      THEN ReplaceAll(artifact, Group(oldName), Group(newName))
      ELSE artifact

\* processBuildFile: the set of its possible results.
processBuildFile(f, filePath, oldName, newName) ==
  LET originalContent == f[filePath].content
      modifiedContent == BuildContent(originalContent, oldName, newName)
  IN  {[fs |-> f, err |-> TRUE, ops |-> {"read"}]}
      \cup
      (IF modifiedContent # originalContent
       THEN {[fs |-> [f EXCEPT ![filePath].content = c], err |-> TRUE,
              ops |-> {"read", "write"}] :
               c \in PartialWrites(originalContent, modifiedContent)}
            \cup {[fs |-> [f EXCEPT ![filePath].content = modifiedContent],
                   err |-> FALSE, ops |-> {"read", "write"}]}
       ELSE {[fs |-> f, err |-> FALSE, ops |-> {"read"}]})

\* The callback's tests on info.Name().
IsSkippedDir(name) == name = ".git" \/ name = "target"

IsJava(name) == HasSuffix(name, ".java")

IsBuildFile(name) == name = "pom.xml" \/ name = "build.gradle"

\* ------------------------------------------------------------------ state

VARIABLES
  projectDir,  \* --dir
  oldName,     \* --old
  newName,     \* --new
  fs,          \* the file tree: path -> node
  stack,       \* the walk: one frame [dir, names] per directory being listed
  pc,          \* "start", "walk", "done" (Renaming complete) or "fatal"
  run,         \* 1, or 2 for a second run with the same flags
  failed,      \* a file-system call of this run has failed
  ops,         \* the kinds of file-system calls made in this run
  fsStart,     \* the tree when this run started
  fs0          \* the tree before the first run

vars == <<projectDir, oldName, newName, fs, stack, pc, run, failed, ops, fsStart, fs0>>

flags == <<projectDir, oldName, newName>>

history == <<run, fsStart, fs0>>

\* ----------------------------------------------------------------- inputs

\* A project with version-control and build-output directories.
TreeProject ==
  ("r" :> DirNode) @@ ("r/.git" :> DirNode) @@ ("r/target" :> DirNode)
  @@ ("r/c" :> DirNode) @@ ("r/c/h" :> DirNode)
  @@ ("r/.git/F.java" :> FileNode(1, "package c.h;"))
  @@ ("r/target/F.java" :> FileNode(2, "import c.h.X;"))
  @@ ("r/c/h/F.java" :> FileNode(3, "package c.h;import c.h.X;"))
  @@ ("r/pom.xml" :> FileNode(4, "c.h:h"))
  @@ ("r/n.txt" :> FileNode(5, "package c.h;"))

\* Sibling packages whose names contain one another.
TreeSiblings ==
  ("r" :> DirNode) @@ ("r/c" :> DirNode) @@ ("r/ch" :> DirNode) @@ ("r/h" :> DirNode)
  @@ ("r/c/F.java" :> FileNode(1, "package c;"))
  @@ ("r/ch/G.java" :> FileNode(2, "import c.X;"))
  @@ ("r/h/F.java" :> FileNode(3, "package h;"))

\* Sources in the root and in a subdirectory, beside other files.
TreeFlat ==
  ("r" :> DirNode) @@ ("r/z" :> DirNode)
  @@ ("r/F.java" :> FileNode(1, "package F;"))
  @@ ("r/F.js" :> FileNode(2, "import F"))
  @@ ("r/z/F.java" :> FileNode(3, "import F.X;"))
  @@ ("r/z/build.gradle" :> FileNode(4, "group c.h"))

\* A directory with a source file's name, and a regular file where a package
\* directory would go.
TreeOdd ==
  ("r" :> DirNode) @@ ("r/c" :> DirNode) @@ ("r/h" :> DirNode)
  @@ ("r/h/F.java" :> DirNode)
  @@ ("r/c/F.java" :> FileNode(1, "package c;"))
  @@ ("r/h/F.java/n.txt" :> FileNode(2, "import c;"))
  @@ ("r/k" :> FileNode(3, "c"))

Trees == {TreeProject, TreeSiblings, TreeFlat, TreeOdd}

\* --old and --new.
NamePairs ==
  { <<"c.h", "c.k">>, <<"c.h", "target">>, <<"c.h", "h.k">>, <<"c", "ch">>,
    <<"c", "h">>, <<"c", "k">>, <<"h", "k.q">>, <<"F", "z.z.F">>, <<"ava", "s">> }

\* --dir, --old and --new: a project directory; a flag left out; a directory
\* that does not exist; a root that is a skipped directory or a file.
Flags ==
  { <<"r", p[1], p[2]>> : p \in NamePairs }
  \cup { <<"", "c.h", "c.k">>, <<"r", "", "c.k">>, <<"r", "c.h", "">>, <<"q", "c.h", "c.k">>,
         <<"r/.git", "c.h", "c.k">>, <<"r/n.txt", "c.h", "c.k">>,
         <<"r/c/h/F.java", "c.h", "c.k">> }

Init ==
  /\ \E fl \in Flags :
       /\ projectDir = fl[1]
       /\ oldName = fl[2]
       /\ newName = fl[3]
  /\ fs \in Trees
  /\ stack = <<>>
  /\ pc = "start"
  /\ run = 1
  /\ failed = FALSE
  /\ ops = {}
  /\ fsStart = fs
  /\ fs0 = fs

\* ------------------------------------------------------------------- main

\* Faulty variant: && for || in the test of the flags.
FlagMissingAll == projectDir = "" /\ oldName = "" /\ newName = ""

FlagMissing == projectDir = "" \/ oldName = "" \/ newName = ""

\* main, lines 18-21: a missing flag is fatal before anything else happens.
MainUsage ==
  /\ pc = "start"
  /\ FlagMissing
  /\ pc' = "fatal"
  /\ UNCHANGED <<flags, fs, stack, failed, ops, history>>

\* main, line 25: filepath.Walk starts with the root as the only entry.
MainWalk ==
  /\ pc = "start"
  /\ ~FlagMissing
  /\ pc' = "walk"
  /\ stack' = <<[dir |-> "", names |-> <<projectDir>>]>>
  /\ UNCHANGED <<flags, fs, failed, ops, history>>

\* ------------------------------------------------------------------- walk

Top == stack[Len(stack)]

Pending == pc = "walk" /\ stack # <<>> /\ Top.names # <<>>

Name == Head(Top.names)

Path == Join(Top.dir, Name)

\* The stack once the entry is taken off its frame.
Advanced == [stack EXCEPT ![Len(stack)].names = Tail(Top.names)]

\* An error returned by the callback ends the walk; main calls log.Fatalf.
Fatal ==
  /\ pc' = "fatal"
  /\ failed' = TRUE
  /\ stack' = Advanced

\* Lstat of the entry fails (it is gone, or the call fails): the callback is
\* called with the error and returns it.
VisitLstatError ==
  /\ Pending
  /\ Fatal
  /\ ops' = ops \cup {"lstat"}
  /\ UNCHANGED <<flags, fs, history>>

\* A directory whose listing fails: the callback is called with the error and
\* returns it, before it looks at the name.
VisitReadDirError ==
  /\ Pending
  /\ LstatOk(fs, Path)
  /\ fs[Path].kind = "dir"
  /\ Fatal
  /\ ops' = ops \cup {"lstat", "readdir"}
  /\ UNCHANGED <<flags, fs, history>>

\* A directory named .git or target: the callback returns SkipDir and the
\* walk goes on with the next entry.
VisitSkippedDir ==
  /\ Pending
  /\ LstatOk(fs, Path)
  /\ fs[Path].kind = "dir"
  /\ IsSkippedDir(Base(Path))
  /\ stack' = Advanced
  /\ ops' = ops \cup {"lstat", "readdir"}
  /\ UNCHANGED <<flags, fs, pc, failed, history>>

\* Any other directory: its names, read before the callback ran, are walked.
VisitDir ==
  /\ Pending
  /\ LstatOk(fs, Path)
  /\ fs[Path].kind = "dir"
  /\ ~IsSkippedDir(Base(Path))
  /\ stack' = Append(Advanced, [dir |-> Path, names |-> ReadDirNames(fs, Path)])
  /\ ops' = ops \cup {"lstat", "readdir"}
  /\ UNCHANGED <<flags, fs, pc, failed, history>>

\* Faulty variant: the walk goes on after a processor's error.
HandledSwallowed(r) ==
  /\ fs' = r.fs
  /\ ops' = ops \cup {"lstat"} \cup r.ops
  /\ stack' = Advanced
  /\ failed' = (failed \/ r.err)
  /\ pc' = pc

\* The callback's result r ends the walk or lets it go on.
Handled(r) ==
  /\ fs' = r.fs
  /\ ops' = ops \cup {"lstat"} \cup r.ops
  /\ stack' = Advanced
  /\ failed' = (failed \/ r.err)
  /\ pc' = IF r.err THEN "fatal" ELSE pc

\* A file whose name ends in .java.
VisitJava ==
  /\ Pending
  /\ LstatOk(fs, Path)
  /\ fs[Path].kind = "file"
  /\ IsJava(Base(Path))
  /\ \E r \in processJavaFile(fs, Path, oldName, newName) : Handled(r)
  /\ UNCHANGED <<flags, history>>

\* A file named pom.xml or build.gradle.
VisitBuild ==
  /\ Pending
  /\ LstatOk(fs, Path)
  /\ fs[Path].kind = "file"
  /\ ~IsJava(Base(Path))
  /\ IsBuildFile(Base(Path))
  /\ \E r \in processBuildFile(fs, Path, oldName, newName) : Handled(r)
  /\ UNCHANGED <<flags, history>>

\* Any other file.
VisitOther ==
  /\ Pending
  /\ LstatOk(fs, Path)
  /\ fs[Path].kind = "file"
  /\ ~IsJava(Base(Path))
  /\ ~IsBuildFile(Base(Path))
  /\ stack' = Advanced
  /\ ops' = ops \cup {"lstat"}
  /\ UNCHANGED <<flags, fs, pc, failed, history>>

\* Faulty variant: the walk does not return from an exhausted directory.
WalkReturnStuck ==
  /\ pc = "walk"
  /\ Len(stack) > 1
  /\ Top.names = <<>>
  /\ UNCHANGED vars

\* A directory's names are exhausted: walk returns to its caller.
WalkReturn ==
  /\ pc = "walk"
  /\ Len(stack) > 1
  /\ Top.names = <<>>
  /\ stack' = SubSeq(stack, 1, Len(stack) - 1)
  /\ UNCHANGED <<flags, fs, pc, failed, ops, history>>

\* main, line 52: Walk returned nil.
Complete ==
  /\ pc = "walk"
  /\ Len(stack) = 1
  /\ Top.names = <<>>
  /\ pc' = "done"
  /\ stack' = <<>>
  /\ UNCHANGED <<flags, fs, failed, ops, history>>

\* The tool is run again with the same flags on the tree it left.
Rerun ==
  /\ pc = "done"
  /\ run = 1
  /\ run' = 2
  /\ pc' = "start"
  /\ fsStart' = fs
  /\ ops' = {}
  /\ UNCHANGED <<flags, fs, stack, failed, fs0>>

Next ==
  \/ MainUsage
  \/ MainWalk
  \/ VisitLstatError
  \/ VisitReadDirError
  \/ VisitSkippedDir
  \/ VisitDir
  \/ VisitJava
  \/ VisitBuild
  \/ VisitOther
  \/ WalkReturn
  \/ Complete
  \/ Rerun

Spec == Init /\ [][Next]_vars

\* The run is never suspended: a step that can be taken is taken.
FairSpec == Spec /\ WF_vars(Next)

\* ----------------------------------------------------------------- claims

Files(f) == {p \in DOMAIN f : f[p].kind = "file"}

Ids(f) == {f[p].id : p \in Files(f)}

\* The path lies under a directory named .git or target.
UnderSkipped(p) == \E a \in Ancestors(p) : IsSkippedDir(Base(a))

\* The path lies in the tree the walk is given.
UnderRoot(p) == p = projectDir \/ HasPrefix(p, projectDir \o "/")

\* The files of tree f that a run over f hands to a processor.
JavaFiles(f) == {p \in Files(f) : UnderRoot(p) /\ ~UnderSkipped(p) /\ IsJava(Base(p))}

BuildFiles(f) ==
  {p \in Files(f) : UnderRoot(p) /\ ~UnderSkipped(p) /\ ~IsJava(Base(p)) /\ IsBuildFile(Base(p))}

OtherFiles(f) == {p \in Files(f) : ~IsJava(Base(p)) /\ ~IsBuildFile(Base(p))}

\* Number of non-overlapping occurrences of a non-empty t in s.
RECURSIVE Count(_, _)
Count(s, t) ==
  IF Index(s, t) = 0 THEN 0
  ELSE 1 + Count(SubSeq(s, Index(s, t) + Len(t), Len(s)), t)

\* No text that a second run searches for is left in tree f.
Settled(f) ==
  /\ \A p \in JavaFiles(f) :
       /\ ~Contains(f[p].content, "package " \o oldName)
       /\ ~Contains(f[p].content, "import " \o oldName)
       /\ ~Contains(p, PackagePath(oldName))
  /\ \A p \in BuildFiles(f) :
       /\ ~Contains(f[p].content, Artifact(oldName))
       /\ (Group(oldName) # "" /\ Group(newName) # "")
            => ~Contains(f[p].content, Group(oldName))

C2_Stated ==
  \A p \in Files(fsStart) : UnderSkipped(p) => (p \in DOMAIN fs /\ fs[p] = fsStart[p])

\* C3 as stated, for the files the run has not destroyed: after a successful
\* run a .java file whose path held the old package path is at the path with
\* its first occurrence replaced and no file is left at the original path; any
\* other .java file is where it was.
C3_Stated ==
  pc = "done" =>
    \A p \in JavaFiles(fsStart) :
      fsStart[p].id \in Ids(fs) =>
        LET q == ReplaceFirst(p, PackagePath(oldName), PackagePath(newName))
        IN  /\ q \in DOMAIN fs
            /\ fs[q].id = fsStart[p].id
            /\ q # p => p \notin DOMAIN fs

\* C4 as stated, for the files the run has not destroyed: after a successful
\* run each .java file holds its original content with the package and import
\* occurrences replaced.
C4_Stated ==
  pc = "done" =>
    \A p \in JavaFiles(fsStart) : \A q \in Files(fs) :
      fs[q].id = fsStart[p].id =>
        fs[q].content =
          ReplaceAll(ReplaceAll(fsStart[p].content,
                                "package " \o oldName, "package " \o newName),
                     "import " \o oldName, "import " \o newName)

\* C5 as stated: once a build file is handled, its content holds the full new
\* name wherever the original held the full old name (so at least as often).
C5_Stated ==
  (pc = "done" /\ run = 1) =>
    \A p \in BuildFiles(fs0) :
      /\ p \in Files(fs)
      /\ Count(fs[p].content, newName) >= Count(fs0[p].content, oldName)

\* C6: with a flag missing the run ends in the fatal state without a walk and
\* without any file-system call, the tree as it was.
C6_NoFlagsNoWalk ==
  (projectDir = "" \/ oldName = "" \/ newName = "") =>
    (pc \in {"start", "fatal"} /\ stack = <<>> /\ ops = {} /\ fs = fs0)

C6_Witness == pc = "fatal" /\ projectDir # "" /\ oldName # "" /\ newName = ""

\* C7: a failed call ends the run in the fatal state at once; from the fatal
\* state nothing is read, written or moved and the run never completes.
C7_ErrorsAreFatal ==
  [][ /\ failed' => pc' = "fatal"
      /\ pc = "fatal" => (pc' = "fatal" /\ fs' = fs /\ ops' = ops) ]_vars

C7_Witness ==
  /\ failed
  /\ pc = "fatal"
  /\ "rename" \in ops
  /\ Top.names # <<>>
  /\ fs # fsStart

\* C8 as stated: a file that is neither .java nor a build file keeps its path
\* and content through the run.
C8_Stated ==
  \A p \in OtherFiles(fsStart) : p \in DOMAIN fs /\ fs[p] = fsStart[p]

\* C9 as stated: at the end of a successful run every file of the start is
\* still there and the number of files is the same.
C9_Stated ==
  pc = "done" =>
    /\ Ids(fs) = Ids(fsStart)
    /\ Cardinality(Files(fs)) = Cardinality(Files(fsStart))

\* C10: every run that starts ends, completed or fatal.
C10_Terminates == (pc = "start") ~> (pc \in {"done", "fatal"})

\* A run has ended after moving a file it had already moved.
C10_Witness ==
  /\ pc \in {"done", "fatal"}
  /\ run = 1
  /\ \E p \in JavaFiles(fs0) : \E q \in Files(fs) :
       /\ fs[q].id = fs0[p].id
       /\ q # p
       /\ q # ReplaceFirst(p, PackagePath(oldName), PackagePath(newName))

====
